---- MODULE Spec2Model ----
(***************************************************************************)
(* Signal Compiler (src/src/main.ts): the evidence verifier, the evidence  *)
(* indexer, the run assembler, the run store ("runs/<pack>_latest.json")   *)
(* and the compile orchestrator with its timeout and cached fallback.      *)
(*                                                                         *)
(* Encoding of JavaScript values                                           *)
(*   - a string that the code concatenates or edits is a sequence of       *)
(*     tokens: "D_S1" is <<"D_", "S1">>, the empty string is <<>>;         *)
(*   - a JSON field that may be missing or of the wrong kind is a record   *)
(*     [k, v]: k = "arr" (an array, v its elements), k = "undef" (missing),*)
(*     k = "num" (a number: truthy, not iterable, without push);           *)
(*   - a call that may throw returns [threw, err, ...].                    *)
(***************************************************************************)
EXTENDS Integers, Sequences, FiniteSets, TLC

VARIABLES
    store,       \* runs/<packId>_latest.json, one file per pack id
    present,     \* the declared filenames that resolve on disk
    pc,          \* per request: where the compile request stands
    reqPack,     \* per request: the pack id the handler resolved
    inputs,      \* per request: liveCompile's inputs metadata
    result,      \* per request: the value liveCompile resolved with
    response,    \* per request: what the handler sent to the caller
    late,        \* per request: liveCompile still pending after the timeout
    hist,        \* per request: what the request has done so far (gateway text, lookups, writes)
    pack,        \* verifier harness: the candidate response object (mutable)
    calls        \* verifier harness: the calls made, each [input, output]

vars == <<store, present, pc, reqPack, inputs, result, response, late,
          hist, pack, calls>>

(***************************************************************************)
(* Bounds                                                                  *)
(***************************************************************************)
MaxSignals == 2     \* candidate signals per gateway response (verifier harness)
MaxCalls == 2       \* calls of verifyEvidence on one object (verifier harness)
MaxSpans == 2       \* evidence spans per signal (indexer harness)
MaxFindings == 3    \* candidate signals per response (report harness)
MaxReq == 1         \* request slots: requests in flight at the same time
MaxWriters == 2     \* compile requests of one pack in flight at the same time

(***************************************************************************)
(* JavaScript values                                                       *)
(***************************************************************************)
Arr(s) == [k |-> "arr", v |-> s]
Undef == [k |-> "undef", v |-> <<>>]
Num == [k |-> "num", v |-> <<>>]

\* x || []
OrEmpty(f) == IF f.k = "undef" THEN Arr(<<>>) ELSE f

\* array.length of an array
Length(f) == Len(f.v)

SeqsUpTo(S, n) == UNION {[1..m -> S] : m \in 0..n}

(***************************************************************************)
(* types.ts                                                                *)
(***************************************************************************)
\* EvidenceSpan: source, quote, page
EvidenceSpan(source, quote) == [source |-> source, quote |-> quote, page |-> 1]

\* Signal: id, summary, severity, evidence (missing, or an array of spans)
Signal(id, severity, evidence) ==
    [id |-> id, summary |-> <<"summary of ">> \o id, severity |-> severity,
     evidence |-> evidence]

\* Drop
Drop(id, what, reason, detail, would_fix) ==
    [id |-> id, what |-> what, reason |-> reason, detail |-> detail,
     would_fix |-> would_fix]

\* ConflictClaim: source, value, quote, page
ConflictClaim(source, quote) ==
    [source |-> source, value |-> "v", quote |-> quote, page |-> 1]

\* Conflict: id, type, claims
Conflict(id, claims) == [id |-> id, type |-> "liquidity.cash_amount", claims |-> claims]

\* NextCheck
NextCheck(priority) ==
    [priority |-> priority, owner |-> "CFO", template |-> "cash_reconciliation"]

\* GeminiSignalResponse as JSON.parse delivers it: kind "obj" with four fields,
\* each possibly missing or of the wrong kind; kind "null" is the JSON text null.
GeminiSignalResponse(signals, drops, conflicts, next_checks) ==
    [kind |-> "obj", signals |-> signals, drops |-> drops, conflicts |-> conflicts,
     next_checks |-> next_checks]

JsonNull ==
    [kind |-> "null", signals |-> Undef, drops |-> Undef, conflicts |-> Undef,
     next_checks |-> Undef]

(***************************************************************************)
(* verifyEvidence (main.ts 435-465)                                        *)
(***************************************************************************)
\* variant: the "D_" prefix is left out of the synthesized id
MissingEvidenceDropNoPrefix(signal) ==
    Drop(signal.id, signal.summary, "MISSING_EVIDENCE",
         "Signal extracted but no evidence quote provided",
         "Manual review required")

\* the Drop synthesized for a signal without evidence (main.ts 445-451)
MissingEvidenceDrop(signal) ==
    Drop(<<"D_">> \o signal.id, signal.summary, "MISSING_EVIDENCE",
         "Signal extracted but no evidence quote provided",
         "Manual review required")

\* variant: only a missing evidence field counts, an empty array passes
HasNoEvidenceOnlyMissing(signal) ==
    signal.evidence.k = "undef"

\* !signal.evidence || signal.evidence.length === 0   (main.ts 443)
\* a number other than 0 is truthy and its .length is undefined, not 0
HasNoEvidence(signal) ==
    \/ signal.evidence.k = "undef"
    \/ signal.evidence.k = "arr" /\ Length(signal.evidence) = 0

\* variant: the synthesized drop is put in front of the drops (unshift for push)
RECURSIVE VerifyLoopUnshift(_, _, _, _)
VerifyLoopUnshift(signals, i, validSignals, drops) ==
    IF i > Len(signals)
    THEN [threw |-> FALSE, validSignals |-> validSignals, drops |-> drops]
    ELSE IF HasNoEvidence(signals[i])
         THEN IF drops.k # "arr"
              THEN [threw |-> TRUE, validSignals |-> validSignals, drops |-> drops]
              ELSE VerifyLoopUnshift(signals, i + 1, validSignals,
                                     Arr(<<MissingEvidenceDrop(signals[i])>> \o drops.v))
         ELSE VerifyLoopUnshift(signals, i + 1, Append(validSignals, signals[i]), drops)

\* variant: an accepted signal is put in front of the accepted ones
RECURSIVE VerifyLoopPrepend(_, _, _, _)
VerifyLoopPrepend(signals, i, validSignals, drops) ==
    IF i > Len(signals)
    THEN [threw |-> FALSE, validSignals |-> validSignals, drops |-> drops]
    ELSE IF HasNoEvidence(signals[i])
         THEN IF drops.k # "arr"
              THEN [threw |-> TRUE, validSignals |-> validSignals, drops |-> drops]
              ELSE VerifyLoopPrepend(signals, i + 1, validSignals,
                                     Arr(Append(drops.v, MissingEvidenceDrop(signals[i]))))
         ELSE VerifyLoopPrepend(signals, i + 1, <<signals[i]>> \o validSignals, drops)

\* the loop of main.ts 441-455 over signals[i..], with the arrays built so far;
\* drops.push on a value that is no array throws (TypeError)
RECURSIVE VerifyLoop(_, _, _, _)
VerifyLoop(signals, i, validSignals, drops) ==
    IF i > Len(signals)
    THEN [threw |-> FALSE, validSignals |-> validSignals, drops |-> drops]
    ELSE IF HasNoEvidence(signals[i])
         THEN IF drops.k # "arr"
              THEN [threw |-> TRUE, validSignals |-> validSignals, drops |-> drops]
              ELSE VerifyLoop(signals, i + 1, validSignals,
                              Arr(Append(drops.v, MissingEvidenceDrop(signals[i]))))
         ELSE VerifyLoop(signals, i + 1, Append(validSignals, signals[i]), drops)

\* The value returned (or the throw), and the drops array as the call leaves it:
\* `drops` is pack.drops itself when the response has one, so push changes the input.
verifyEvidence(p) ==
    IF p.kind = "null" \/ OrEmpty(p.signals).k # "arr"
    THEN [threw |-> TRUE, err |-> "TypeError",
          signals |-> Arr(<<>>), drops |-> Arr(<<>>), conflicts |-> Arr(<<>>),
          next_checks |-> Arr(<<>>)]
    ELSE LET loop == VerifyLoop(OrEmpty(p.signals).v, 1, <<>>, OrEmpty(p.drops))
         IN  [threw |-> loop.threw,
              err |-> IF loop.threw THEN "TypeError" ELSE "",
              signals |-> Arr(loop.validSignals),
              drops |-> loop.drops,
              conflicts |-> OrEmpty(p.conflicts),
              next_checks |-> OrEmpty(p.next_checks)]

\* the candidate object after the call: pack.drops aliases the returned drops
AfterVerify(p, out) ==
    IF p.kind = "obj" /\ p.drops.k = "arr" /\ ~out.threw
    THEN [p EXCEPT !.drops = out.drops]
    ELSE p

(***************************************************************************)
(* extractEvidenceSpans (main.ts 398-433)                                  *)
(***************************************************************************)
\* String.prototype.replace(pattern, '') with a string pattern: the first
\* occurrence of the token is removed, compared exactly (case-sensitive)
RECURSIVE ReplaceFirst(_, _)
ReplaceFirst(s, tok) ==
    IF s = <<>> THEN <<>>
    ELSE IF Head(s) = tok THEN Tail(s)
    ELSE <<Head(s)>> \o ReplaceFirst(Tail(s), tok)

\* `ev_${evId}`
EvId(n) == [pre |-> "ev_", n |-> n]

\* main.ts 405-412
SpanEntry(ev, evId) ==
    [id |-> EvId(evId), doc_id |-> ReplaceFirst(ev.source, ".pdf"),
     page |-> ev.page, quote |-> ev.quote]

\* main.ts 421-426: claim.source?.replace('.pdf', '') || 'unknown'
ClaimEntry(claim, evId) ==
    [id |-> EvId(evId),
     doc_id |-> IF ReplaceFirst(claim.source, ".pdf") = <<>>
                THEN <<"unknown">> ELSE ReplaceFirst(claim.source, ".pdf"),
     page |-> claim.page, quote |-> claim.quote]

\* variant: a span whose quote is already indexed is left out
RECURSIVE SpanEntriesDedup(_, _, _)
SpanEntriesDedup(spans, i, evidence) ==
    IF i > Len(spans) THEN evidence
    ELSE SpanEntriesDedup(spans, i + 1,
             IF \E k \in 1..Len(evidence) : evidence[k].quote = spans[i].quote
             THEN evidence
             ELSE Append(evidence, SpanEntry(spans[i], Len(evidence) + 1)))

\* the spans of one signal (main.ts 403-414), appended to `evidence`
RECURSIVE SpanEntries(_, _, _)
SpanEntries(spans, i, evidence) ==
    IF i > Len(spans) THEN evidence
    ELSE SpanEntries(spans, i + 1,
                     Append(evidence, SpanEntry(spans[i], Len(evidence) + 1)))

\* the claims of one conflict that carry a quote (main.ts 418-429)
RECURSIVE ClaimEntries(_, _, _)
ClaimEntries(claims, i, evidence) ==
    IF i > Len(claims) THEN evidence
    ELSE ClaimEntries(claims, i + 1,
                      IF claims[i].quote # <<>>
                      THEN Append(evidence, ClaimEntry(claims[i], Len(evidence) + 1))
                      ELSE evidence)

RECURSIVE SignalsEntries(_, _, _)
SignalsEntries(signals, i, evidence) ==
    IF i > Len(signals) THEN evidence
    ELSE SignalsEntries(signals, i + 1,
                        IF signals[i].evidence.k = "arr"
                        THEN SpanEntries(signals[i].evidence.v, 1, evidence)
                        ELSE evidence)

RECURSIVE ConflictsEntries(_, _, _)
ConflictsEntries(conflicts, i, evidence) ==
    IF i > Len(conflicts) THEN evidence
    ELSE ConflictsEntries(conflicts, i + 1,
                          IF conflicts[i].claims.k = "arr"
                          THEN ClaimEntries(conflicts[i].claims.v, 1, evidence)
                          ELSE evidence)

\* for (const ev of sig.evidence) over a number throws (main.ts 403-404)
NotIterable(signals) == \E i \in 1..Len(signals) : signals[i].evidence.k = "num"

\* variant: the conflicts are indexed before the signals
extractEvidenceSpansConflictsFirst(verified) ==
    IF NotIterable(verified.signals.v) \/ verified.conflicts.k # "arr"
    THEN [threw |-> TRUE, err |-> "TypeError", evidence |-> <<>>]
    ELSE [threw |-> FALSE, err |-> "",
          evidence |-> SignalsEntries(verified.signals.v, 1,
                           ConflictsEntries(verified.conflicts.v, 1, <<>>))]

\* evId is always Len(evidence) + 1: it starts at 1 and grows with each push.
\* for..of over conflicts that is no array throws (TypeError).
extractEvidenceSpans(verified) ==
    IF NotIterable(verified.signals.v) \/ verified.conflicts.k # "arr"
    THEN [threw |-> TRUE, err |-> "TypeError", evidence |-> <<>>]
    ELSE [threw |-> FALSE, err |-> "",
          evidence |-> ConflictsEntries(verified.conflicts.v, 1,
                           SignalsEntries(verified.signals.v, 1, <<>>))]

(***************************************************************************)
(* Candidate responses: what the gateway may put in its JSON               *)
(***************************************************************************)
SignalIds == {<<"S1">>, <<"S2">>}

\* evidence of a candidate: missing, empty, one span with a quote, one span
\* whose quote is the empty string
CandidateEvidence ==
    {Undef, Arr(<<>>),
     Arr(<<EvidenceSpan(<<"weekly-pack", ".pdf">>, <<"q1">>)>>),
     Arr(<<EvidenceSpan(<<"weekly-pack", ".pdf">>, <<>>)>>)}

CandidateSignals ==
    {Signal(id, "high", ev) : id \in SignalIds, ev \in CandidateEvidence}

\* drops reported by the model itself: one of them already uses the id D_S1
ModelDropA ==
    Drop(<<"D1">>, <<"invoice">>, "REFERENCED_NOT_ATTACHED", "not attached", "attach it")
ModelDropB ==
    Drop(<<"D_", "S1">>, <<"memo">>, "AMBIGUOUS", "unclear", "clarify")

CandidateDrops ==
    {Undef, Arr(<<>>), Arr(<<ModelDropA>>), Arr(<<ModelDropB, ModelDropA>>)}

SomeConflicts ==
    Arr(<<Conflict(<<"C1">>,
                   Arr(<<ConflictClaim(<<"email-thread", ".pdf">>, <<"q2">>),
                         ConflictClaim(<<"bank", ".PDF">>, <<>>)>>))>>)

SomeNextChecks == Arr(<<NextCheck(1)>>)

Candidates ==
    {GeminiSignalResponse(Arr(s), d, SomeConflicts, SomeNextChecks) :
        s \in SeqsUpTo(CandidateSignals, MaxSignals), d \in CandidateDrops}

(***************************************************************************)
(* Pack catalog (main.ts 27-69), cut down to two packs of two and one files *)
(***************************************************************************)
PackKeys == <<"agrinova_w04", "nordlake_compliance_w07">>
PackIds == {PackKeys[i] : i \in 1..Len(PackKeys)}

PACKS ==
    [p \in PackIds |->
        IF p = "agrinova_w04"
        THEN [id |-> p, name |-> "AgriNova W04 2026 (Original)",
              files |-> <<[doc_id |-> "weekly-pack", filename |-> "Demo_Artifact_1.pdf"],
                          [doc_id |-> "email-thread", filename |-> "Demo_Artifact_2.pdf"]>>]
        ELSE [id |-> p, name |-> "Nordlake Bank Compliance W07 2026",
              files |-> <<[doc_id |-> "weekly-dashboard",
                           filename |-> "Pack1_Compliance_W07.pdf"]>>]]

Filenames ==
    UNION {{PACKS[p].files[i].filename : i \in 1..Len(PACKS[p].files)} : p \in PackIds}

\* PACKS is an object literal, so PACKS[key] also finds what every object
\* inherits from Object.prototype: PACKS['constructor'] is the function Object
InheritedKeys == {"constructor"}

\* the function Object read as a PackConfig: name is 'Object', id and files
\* are undefined (`${packConfig.id}` prints as undefined)
ObjectConstructor == [id |-> "undefined", name |-> "Object", files |-> Undef]

\* PACKS[packId]   (main.ts 119, 145): undefined makes `!pack` true
PacksLookup(packId) ==
    IF packId \in PackIds THEN [k |-> "config", v |-> PACKS[packId]]
    ELSE IF packId \in InheritedKeys THEN [k |-> "inherited", v |-> ObjectConstructor]
    ELSE [k |-> "undef", v |-> ObjectConstructor]

\* req.params.packId as the caller may send it: a known id, an unknown id, the
\* name of an inherited property, none
PackParams == PackIds \cup {"no_such_pack", "constructor", ""}

\* req.params.packId || 'agrinova_w04'   (main.ts 118)
ResolvePackId(param) == IF param = "" THEN "agrinova_w04" ELSE param

(***************************************************************************)
(* Calls that may throw                                                    *)
(***************************************************************************)
NoResult == [none |-> TRUE]
Thrown(e) == [threw |-> TRUE, err |-> e, value |-> NoResult]
Returned(v) == [threw |-> FALSE, err |-> "", value |-> v]

(***************************************************************************)
(* Run store: one file runs/<packId>_latest.json per pack                  *)
(***************************************************************************)
NoFile == [kind |-> "none"]
PartialFile == [kind |-> "partial"]     \* a write that failed after truncating

\* JSON.stringify(result._runPack, null, 2), as file content
JSONstringify(runPack) == [kind |-> "json", rec |-> runPack]

\* existsSync(cachedPath)
existsSync(file) == file.kind # "none"

\* JSON.parse(readFileSync(cachedPath, 'utf-8')): truncated text does not parse
JSONparse(file) ==
    IF file.kind = "json" THEN Returned(file.rec) ELSE Thrown("SyntaxError")

\* what fs.writeFileSync may do to the file (main.ts 274): write it all, fail
\* before the file is opened (mkdirSync or open fails), or fail after the file
\* was opened for writing, which truncates it
WriteOutcomes == {"written", "failed", "partial"}

\* variant: a record that is there is kept (the first writer wins)
writeFileSyncKeepFirst(file, text, outcome) ==
    CASE file.kind = "json" -> file
      [] outcome = "written" -> text
      [] outcome = "failed" -> file
      [] OTHER -> PartialFile

\* variant: the write is skipped
writeFileSyncNothing(file, text, outcome) == file

writeFileSync(file, text, outcome) ==
    CASE outcome = "written" -> text
      [] outcome = "failed" -> file
      [] OTHER -> PartialFile

(***************************************************************************)
(* liveCompile (main.ts 302-396)                                           *)
(***************************************************************************)
SIGNAL_COMPILER_PROMPT == "You are a Signal Compiler for executive documents."

\* what new Date().toISOString() may read when a run is assembled
Stamps == {"2026-01-26T10:00:00.000Z", "2026-01-26T10:05:00.000Z"}

\* createHash('sha256').update(data).digest('hex') of the file's bytes
sha256(filename) == <<"sha256 of bytes of ", filename>>

\* createHash('md5').update(text).digest('hex').slice(0, 8)
config_hash(text) == <<"md5[0..8] of ", text>>

\* variant: loading stops at the first declared file that is not found
RECURSIVE LoadInputsBreak(_, _, _)
LoadInputsBreak(files, i, found) ==
    IF i > Len(files) \/ files[i].filename \notin found THEN <<>>
    ELSE <<[doc_id |-> files[i].doc_id, filename |-> files[i].filename,
            sha256 |-> sha256(files[i].filename), type |-> "pdf"]>>
         \o LoadInputsBreak(files, i + 1, found)

\* main.ts 310-340: the declared files that resolve, in declared order
RECURSIVE LoadInputs(_, _, _)
LoadInputs(files, i, found) ==
    IF i > Len(files) THEN <<>>
    ELSE (IF files[i].filename \in found
          THEN <<[doc_id |-> files[i].doc_id, filename |-> files[i].filename,
                  sha256 |-> sha256(files[i].filename), type |-> "pdf"]>>
          ELSE <<>>) \o LoadInputs(files, i + 1, found)

\* parts: the prompt, then a header and the data of each resolved file
PartsLength(inp) == 1 + 2 * Len(inp)

\* what model.generateContent may deliver: a rejection (transport error), text
\* that is no JSON, or JSON text (given by the value JSON.parse makes of it)
Rejected == [kind |-> "reject", err |-> "fetch failed", value |-> JsonNull]
Garbage == [kind |-> "garbage", err |-> "", value |-> JsonNull]
JsonText(v) == [kind |-> "json", err |-> "", value |-> v]

GoodResponse ==
    GeminiSignalResponse(
        Arr(<<Signal(<<"S1">>, "critical",
                     Arr(<<EvidenceSpan(<<"weekly-pack", ".pdf">>, <<"q1">>)>>)),
              Signal(<<"S2">>, "high", Arr(<<>>))>>),
        Arr(<<ModelDropA>>), SomeConflicts, SomeNextChecks)

\* the JSON text {}
EmptyObject == GeminiSignalResponse(Undef, Undef, Undef, Undef)

\* {"signals": [], "drops": [], "conflicts": 7, "next_checks": []}
ConflictsNumber == GeminiSignalResponse(Arr(<<>>), Arr(<<>>), Num, Arr(<<>>))

\* {"signals": [{"id": "S1", ..., "evidence": 3}], "drops": [], ...}
EvidenceNumber ==
    GeminiSignalResponse(Arr(<<Signal(<<"S1">>, "critical", Num)>>), Arr(<<>>),
                         SomeConflicts, SomeNextChecks)

\* the disks the server may run on: every declared file there, or only the
\* second file of agrinova_w04 (the first is skipped, nordlake has no artifact)
DiskStates == {Filenames, {"Demo_Artifact_2.pdf"}}

GatewayOutcomes ==
    {Rejected, Garbage, JsonText(GoodResponse), JsonText(EmptyObject),
     JsonText(JsonNull), JsonText(ConflictsNumber), JsonText(EvidenceNumber)}

\* variant: the run id puts the pack id before the timestamp
RunEvidencePackIdFirst(packConfig, inp, verified, evidence, now) ==
    [run_meta |-> [run_id |-> <<packConfig.id, "_", now>>,
                   pack_id |-> packConfig.id,
                   model |-> "gemini-2.5-flash",
                   config_hash |-> config_hash(SIGNAL_COMPILER_PROMPT),
                   created_at |-> now],
     inputs |-> inp,
     signals |-> verified.signals,
     conflicts |-> verified.conflicts,
     drops |-> verified.drops,
     next_checks |-> verified.next_checks,
     evidence |-> evidence]

\* variant: the hash covers the pack id along with the prompt
RunEvidencePackHashPerPack(packConfig, inp, verified, evidence, now) ==
    [run_meta |-> [run_id |-> <<now, "_", packConfig.id>>,
                   pack_id |-> packConfig.id,
                   model |-> "gemini-2.5-flash",
                   config_hash |-> config_hash(<<SIGNAL_COMPILER_PROMPT, packConfig.id>>),
                   created_at |-> now],
     inputs |-> inp,
     signals |-> verified.signals,
     conflicts |-> verified.conflicts,
     drops |-> verified.drops,
     next_checks |-> verified.next_checks,
     evidence |-> evidence]

\* main.ts 374-388
RunEvidencePack(packConfig, inp, verified, evidence, now) ==
    [run_meta |-> [run_id |-> <<now, "_", packConfig.id>>,
                   pack_id |-> packConfig.id,
                   model |-> "gemini-2.5-flash",
                   config_hash |-> config_hash(SIGNAL_COMPILER_PROMPT),
                   created_at |-> now],
     inputs |-> inp,
     signals |-> verified.signals,
     conflicts |-> verified.conflicts,
     drops |-> verified.drops,
     next_checks |-> verified.next_checks,
     evidence |-> evidence]

\* variant: the fresh result is marked as cached too
LiveResultMarked(packConfig, verified, runPack, now) ==
    [case_id |-> packConfig.id, processed_at |-> now,
     signals |-> verified.signals, drops |-> verified.drops,
     conflicts |-> verified.conflicts, next_checks |-> verified.next_checks,
     runPack |-> runPack, cached |-> TRUE]

\* main.ts 390-395
LiveResult(packConfig, verified, runPack, now) ==
    [case_id |-> packConfig.id, processed_at |-> now,
     signals |-> verified.signals, drops |-> verified.drops,
     conflicts |-> verified.conflicts, next_checks |-> verified.next_checks,
     runPack |-> runPack]

\* main.ts 356-395: liveCompile from the gateway's answer on
liveCompileRest(packConfig, inp, g, now) ==
    IF g.kind = "reject" THEN Thrown(g.err)
    ELSE IF g.kind = "garbage" THEN Thrown("Invalid JSON from Gemini")
    ELSE LET verified == verifyEvidence(g.value)
             ev == extractEvidenceSpans(verified)
         IN  IF verified.threw THEN Thrown(verified.err)
             ELSE IF ev.threw THEN Thrown(ev.err)
             ELSE Returned(LiveResult(packConfig, verified,
                      RunEvidencePack(packConfig, inp, verified, ev.evidence, now), now))

(***************************************************************************)
(* compileSignals (main.ts 255-300)                                        *)
(***************************************************************************)
\* variant: a failed save is thrown on to the caller
compileSignalsSavedThrowing(res, outcome) ==
    IF outcome = "written" THEN Returned(res) ELSE Thrown("ENOSPC")

\* main.ts 267-280: what the try block ends with once the save was attempted;
\* the inner catch logs a failed save and the result is returned all the same
compileSignalsSaved(res, outcome) == Returned(res)

\* variant: the cached record's drops are left out of the response
CachedResultNoDrops(packConfig, cached) ==
    [case_id |-> packConfig.id,
     processed_at |-> cached.run_meta.created_at,
     signals |-> OrEmpty(cached.signals),
     conflicts |-> OrEmpty(cached.conflicts),
     drops |-> Arr(<<>>),
     next_checks |-> OrEmpty(cached.next_checks),
     cached |-> TRUE]

\* main.ts 287-295
CachedResult(packConfig, cached) ==
    [case_id |-> packConfig.id,
     processed_at |-> cached.run_meta.created_at,
     signals |-> OrEmpty(cached.signals),
     conflicts |-> OrEmpty(cached.conflicts),
     drops |-> OrEmpty(cached.drops),
     next_checks |-> OrEmpty(cached.next_checks),
     cached |-> TRUE]

\* variant: the catch block throws a generic error instead of the one caught
compileSignalsCatchGeneric(packConfig, file, error) ==
    IF existsSync(file)
    THEN IF JSONparse(file).threw THEN Thrown(JSONparse(file).err)
         ELSE Returned(CachedResult(packConfig, JSONparse(file).value))
    ELSE Thrown("Compilation failed")

\* main.ts 281-299: the catch block, given the file it finds
compileSignalsCatch(packConfig, file, error) ==
    IF existsSync(file)
    THEN IF JSONparse(file).threw THEN Thrown(JSONparse(file).err)
         ELSE Returned(CachedResult(packConfig, JSONparse(file).value))
    ELSE Thrown(error)

(***************************************************************************)
(* The handlers (main.ts 117-161)                                          *)
(***************************************************************************)
NoResponse == [status |-> 0]

\* main.ts 122
UnknownPackReply ==
    [status |-> 400, body |-> [error |-> "Unknown pack", available |-> PackKeys]]

\* main.ts 128-139: res.json(result), or the 500 reply of the catch
CompileReply(outcome) ==
    IF outcome.threw
    THEN [status |-> 500,
          body |-> [error |-> "Compilation failed", detail |-> outcome.err]]
    ELSE [status |-> 200, body |-> outcome.value]

\* main.ts 143-161: GET /export/:packId (a file that does not parse makes
\* JSON.parse throw inside the handler: reported here as status 500)
ExportReply(packId, file) ==
    IF PacksLookup(packId).k = "undef"
    THEN [status |-> 400, body |-> [error |-> "Unknown pack"]]
    ELSE IF existsSync(file)
    THEN IF JSONparse(file).threw
         THEN [status |-> 500, body |-> [error |-> JSONparse(file).err]]
         ELSE [status |-> 200, body |-> JSONparse(file).value]
    ELSE [status |-> 404, body |-> [error |-> "No run found for this pack. Run /compile first."]]

(***************************************************************************)
(* generateMarkdown (main.ts 180-253) and GET /export/:packId/md           *)
(* The report is kept as the values its lines print, section by section.   *)
(***************************************************************************)
MapSeq(seq, F(_)) == [i \in 1..Len(seq) |-> F(seq[i])]

\* array.filter(pred).length
FilterLength(seq, P(_)) == Len(SelectSeq(seq, P))

\* main.ts 204-218: one signal's section
SignalSection(sig) ==
    [id |-> sig.id, severity |-> sig.severity, summary |-> sig.summary,
     evidence |-> IF sig.evidence.k = "arr"
                  THEN MapSeq(sig.evidence.v,
                              LAMBDA ev : [source |-> ev.source, page |-> ev.page,
                                           quote |-> ev.quote])
                  ELSE <<>>]

\* main.ts 221-231: one conflict's section
ConflictSection(conf) ==
    [id |-> conf.id, type |-> conf.type,
     claims |-> IF conf.claims.k = "arr"
                THEN MapSeq(conf.claims.v,
                            LAMBDA claim : [source |-> claim.source, value |-> claim.value])
                ELSE <<>>]

\* variant: the High row counts every signal that is not critical
generateMarkdownHighIsRest(run) ==
    IF \E f \in {run.signals, run.conflicts, run.drops, run.next_checks} : f.k # "arr"
    THEN [threw |-> TRUE, err |-> "TypeError", md |-> NoResult]
    ELSE [threw |-> FALSE, err |-> "",
          md |-> [title |-> run.run_meta.pack_id,
                  generated |-> run.run_meta.created_at,
                  model |-> run.run_meta.model,
                  summary |->
                     [critical |-> FilterLength(run.signals.v,
                                       LAMBDA s : s.severity = "critical"),
                      high |-> FilterLength(run.signals.v,
                                       LAMBDA s : s.severity # "critical"),
                      total |-> Len(run.signals.v),
                      conflicts |-> Len(run.conflicts.v),
                      drops |-> Len(run.drops.v),
                      next_checks |-> Len(run.next_checks.v)],
                  inputs |-> MapSeq(run.inputs,
                                LAMBDA input : [doc_id |-> input.doc_id,
                                                filename |-> input.filename,
                                                type |-> input.type]),
                  signals |-> MapSeq(run.signals.v, SignalSection),
                  conflicts |-> MapSeq(run.conflicts.v, ConflictSection),
                  drops |-> MapSeq(run.drops.v,
                                LAMBDA drop : [id |-> drop.id, reason |-> drop.reason,
                                               what |-> drop.what,
                                               would_fix |-> drop.would_fix]),
                  next_checks |-> MapSeq(run.next_checks.v,
                                LAMBDA check : [priority |-> check.priority,
                                                template |-> check.template,
                                                owner |-> check.owner])]]

\* run.signals.filter on a value that is no array, and for..of over one, throw
generateMarkdown(run) ==
    IF \E f \in {run.signals, run.conflicts, run.drops, run.next_checks} : f.k # "arr"
    THEN [threw |-> TRUE, err |-> "TypeError", md |-> NoResult]
    ELSE [threw |-> FALSE, err |-> "",
          md |-> [title |-> run.run_meta.pack_id,
                  generated |-> run.run_meta.created_at,
                  model |-> run.run_meta.model,
                  summary |->
                     [critical |-> FilterLength(run.signals.v,
                                       LAMBDA s : s.severity = "critical"),
                      high |-> FilterLength(run.signals.v,
                                       LAMBDA s : s.severity = "high"),
                      total |-> Len(run.signals.v),
                      conflicts |-> Len(run.conflicts.v),
                      drops |-> Len(run.drops.v),
                      next_checks |-> Len(run.next_checks.v)],
                  inputs |-> MapSeq(run.inputs,
                                LAMBDA input : [doc_id |-> input.doc_id,
                                                filename |-> input.filename,
                                                type |-> input.type]),
                  signals |-> MapSeq(run.signals.v, SignalSection),
                  conflicts |-> MapSeq(run.conflicts.v, ConflictSection),
                  drops |-> MapSeq(run.drops.v,
                                LAMBDA drop : [id |-> drop.id, reason |-> drop.reason,
                                               what |-> drop.what,
                                               would_fix |-> drop.would_fix]),
                  next_checks |-> MapSeq(run.next_checks.v,
                                LAMBDA check : [priority |-> check.priority,
                                                template |-> check.template,
                                                owner |-> check.owner])]]

\* main.ts 164-178: GET /export/:packId/md; the handler does not look the pack
\* up in PACKS (a file that does not parse, or a record generateMarkdown throws
\* on, makes the handler throw: reported here as status 500)
ExportMdReply(packId, file) ==
    IF ~existsSync(file)
    THEN [status |-> 404, body |-> [error |-> "No run found. Run /compile first."]]
    ELSE IF JSONparse(file).threw
    THEN [status |-> 500, body |-> [error |-> JSONparse(file).err]]
    ELSE IF generateMarkdown(JSONparse(file).value).threw
    THEN [status |-> 500, body |-> [error |-> generateMarkdown(JSONparse(file).value).err]]
    ELSE [status |-> 200, body |-> generateMarkdown(JSONparse(file).value).md]

(***************************************************************************)
(* The requests                                                            *)
(***************************************************************************)
Reqs == 1..MaxReq

\* what a request has done: the gateway's answer it received (text), the kind
\* of file its fallback lookup found (seen), the error its live compile failed
\* with (liveErr), what its write did (wrote), how many times it called the
\* gateway (calls)
NoText == [kind |-> "none", err |-> "", value |-> JsonNull]
NoHist == [kind |-> "", calls |-> 0, text |-> NoText, seen |-> "", liveErr |-> "",
           wrote |-> ""]

(***************************************************************************)
(* The compile orchestrator as a state machine                             *)
(***************************************************************************)
\* variant: when the pack has no file, the file of another pack is taken
RunFileOfAnyPack(id) ==
    IF id \notin PackIds THEN NoFile
    ELSE IF store[id] = NoFile /\ \E q \in PackIds : store[q] # NoFile
    THEN store[CHOOSE q \in PackIds : store[q] # NoFile]
    ELSE store[id]

\* runs/<id>_latest.json: only the catalog's packs ever get a file written
RunFile(id) == IF id \in PackIds THEN store[id] ELSE NoFile

Init ==
    /\ store = [p \in PackIds |-> NoFile]
    /\ present \in DiskStates
    /\ pc = [r \in Reqs |-> "idle"]
    /\ reqPack = [r \in Reqs |-> ""]
    /\ inputs = [r \in Reqs |-> <<>>]
    /\ result = [r \in Reqs |-> NoResult]
    /\ response = [r \in Reqs |-> NoResponse]
    /\ late = [r \in Reqs |-> FALSE]
    /\ hist = [r \in Reqs |-> NoHist]
    /\ pack = EmptyObject
    /\ calls = <<>>

\* variant: after a first failure the live compile is tried once more
CaughtRetry(r, packId, error, h) ==
    IF h.calls = 1
    THEN /\ pc' = [pc EXCEPT ![r] = "inferring"]
         /\ hist' = [hist EXCEPT ![r] = [h EXCEPT !.calls = 2]]
         /\ UNCHANGED response
    ELSE /\ response' = [response EXCEPT ![r] =
                CompileReply(compileSignalsCatch(PACKS[packId], RunFile(packId), error))]
         /\ pc' = [pc EXCEPT ![r] = "done"]
         /\ hist' = [hist EXCEPT ![r] =
                [h EXCEPT !.seen = RunFile(packId).kind, !.liveErr = error]]

\* compileSignals' catch block runs for request r with the error caught, and
\* the handler replies (main.ts 281-299, 132-138); h is the request's history
Caught(r, packId, error, h) ==
    LET file == RunFile(packId)
    IN  /\ response' = [response EXCEPT ![r] =
               CompileReply(compileSignalsCatch(PACKS[packId], file, error))]
        /\ pc' = [pc EXCEPT ![r] = "done"]
        /\ hist' = [hist EXCEPT ![r] =
               [h EXCEPT !.seen = file.kind, !.liveErr = error]]

\* POST /compile/:packId? up to the gateway call (main.ts 117-129, 255-265,
\* 302-356): unknown pack, or no artifacts (caught at once), or inference starts
Compile(r, param) ==
    /\ pc[r] = "idle"
    /\ reqPack' = [reqPack EXCEPT ![r] = ResolvePackId(param)]
    /\ IF PacksLookup(ResolvePackId(param)).k = "undef"
       THEN /\ response' = [response EXCEPT ![r] = UnknownPackReply]
            /\ pc' = [pc EXCEPT ![r] = "done"]
            /\ hist' = [hist EXCEPT ![r] = [NoHist EXCEPT !.kind = "compile"]]
            /\ UNCHANGED inputs
       ELSE IF PacksLookup(ResolvePackId(param)).k = "inherited"
       THEN \* liveCompile: `for (const file of packConfig.files)` over undefined
            \* throws; the catch block looks for runs/undefined_latest.json
            /\ response' = [response EXCEPT ![r] =
                   CompileReply(compileSignalsCatch(
                       PacksLookup(ResolvePackId(param)).v,
                       RunFile(PacksLookup(ResolvePackId(param)).v.id), "TypeError"))]
            /\ pc' = [pc EXCEPT ![r] = "done"]
            /\ hist' = [hist EXCEPT ![r] =
                   [NoHist EXCEPT !.kind = "compile", !.seen = "none",
                                  !.liveErr = "TypeError"]]
            /\ UNCHANGED inputs
       ELSE LET inp == LoadInputs(PACKS[ResolvePackId(param)].files, 1, present)
            IN  /\ inputs' = [inputs EXCEPT ![r] = inp]
                /\ IF PartsLength(inp) < 3
                   THEN Caught(r, ResolvePackId(param), "No artifacts found for this pack.",
                               [NoHist EXCEPT !.kind = "compile"])
                   ELSE /\ pc' = [pc EXCEPT ![r] = "inferring"]
                        /\ hist' = [hist EXCEPT ![r] =
                               [NoHist EXCEPT !.kind = "compile", !.calls = 1]]
                        /\ UNCHANGED response
    /\ UNCHANGED <<store, present, result, late, pack, calls>>

\* model.generateContent settles before the deadline; liveCompile parses,
\* verifies and assembles, or throws into the catch block (main.ts 356-395)
GatewayReturn(r, g, now) ==
    /\ pc[r] = "inferring"
    /\ LET out == liveCompileRest(PACKS[reqPack[r]], inputs[r], g, now)
       IN  IF out.threw
           THEN /\ Caught(r, reqPack[r], out.err, [hist[r] EXCEPT !.text = g])
                /\ UNCHANGED result
           ELSE /\ result' = [result EXCEPT ![r] = out.value]
                /\ pc' = [pc EXCEPT ![r] = "persisting"]
                /\ hist' = [hist EXCEPT ![r].text = g]
                /\ UNCHANGED response
    /\ inputs' = [inputs EXCEPT ![r] = <<>>]
    /\ UNCHANGED <<store, present, reqPack, late, pack, calls>>

\* variant: compileSignals awaits liveCompile alone, without the race
TimerPendingNoRace(p) == FALSE

\* the timer set at main.ts 262-263 is armed from the start of compileSignals
\* and can reject the race for as long as liveCompile has not settled
TimerPending(p) == p = "inferring"

\* the timer of Promise.race fires first (main.ts 262-264): the catch block
\* runs while liveCompile is still waiting for the gateway
Timeout(r) ==
    /\ TimerPending(pc[r])
    /\ Caught(r, reqPack[r], "Gemini timeout", hist[r])
    /\ late' = [late EXCEPT ![r] = TRUE]
    /\ UNCHANGED <<store, present, reqPack, inputs, result, pack, calls>>

\* variant: what liveCompile returns after the deadline is saved all the same
LateReturnSaving(r, g) ==
    /\ late[r]
    /\ late' = [late EXCEPT ![r] = FALSE]
    /\ inputs' = [inputs EXCEPT ![r] = <<>>]
    /\ LET out == liveCompileRest(PACKS[reqPack[r]], inputs[r], g,
                                   "2026-01-26T10:05:00.000Z")
       IN  store' = IF out.threw THEN store
                    ELSE [store EXCEPT ![reqPack[r]] = JSONstringify(out.value.runPack)]
    /\ UNCHANGED <<present, pc, reqPack, result, response, hist, pack, calls>>

\* the gateway settles after the deadline: liveCompile runs to its end, and the
\* race, already settled, drops what it returns or throws
LateReturn(r, g) ==
    /\ late[r]
    /\ late' = [late EXCEPT ![r] = FALSE]
    /\ inputs' = [inputs EXCEPT ![r] = <<>>]
    /\ UNCHANGED <<store, present, pc, reqPack, result, response,
                   hist, pack, calls>>

\* main.ts 267-280: the run is saved (or the failure swallowed) and returned
Persist(r, outcome) ==
    /\ pc[r] = "persisting"
    /\ store' = [store EXCEPT ![reqPack[r]] =
           writeFileSync(@, JSONstringify(result[r].runPack), outcome)]
    /\ response' = [response EXCEPT ![r] =
           CompileReply(compileSignalsSaved(result[r], outcome))]
    /\ pc' = [pc EXCEPT ![r] = "done"]
    /\ hist' = [hist EXCEPT ![r].wrote = outcome]
    /\ UNCHANGED <<present, reqPack, inputs, result, late, pack, calls>>

\* variant: the export removes the run file once it has been sent
ExportRemoving(r, packId) ==
    /\ pc[r] = "idle"
    /\ reqPack' = [reqPack EXCEPT ![r] = packId]
    /\ response' = [response EXCEPT ![r] = ExportReply(packId, RunFile(packId))]
    /\ pc' = [pc EXCEPT ![r] = "done"]
    /\ hist' = [hist EXCEPT ![r] = [NoHist EXCEPT !.kind = "export"]]
    /\ store' = [p \in PackIds |-> IF p = packId THEN NoFile ELSE store[p]]
    /\ UNCHANGED <<present, inputs, result, late, pack, calls>>

\* GET /export/:packId (main.ts 143-161)
Export(r, packId) ==
    /\ pc[r] = "idle"
    /\ reqPack' = [reqPack EXCEPT ![r] = packId]
    /\ response' = [response EXCEPT ![r] =
           ExportReply(packId, RunFile(packId))]
    /\ pc' = [pc EXCEPT ![r] = "done"]
    /\ hist' = [hist EXCEPT ![r] = [NoHist EXCEPT !.kind = "export"]]
    /\ UNCHANGED <<store, present, inputs, result, late, pack, calls>>

\* GET /export/:packId/md (main.ts 164-178)
ExportMd(r, packId) ==
    /\ pc[r] = "idle"
    /\ reqPack' = [reqPack EXCEPT ![r] = packId]
    /\ response' = [response EXCEPT ![r] = ExportMdReply(packId, RunFile(packId))]
    /\ pc' = [pc EXCEPT ![r] = "done"]
    /\ hist' = [hist EXCEPT ![r] = [NoHist EXCEPT !.kind = "export_md"]]
    /\ UNCHANGED <<store, present, inputs, result, late, pack, calls>>

\* the reply has gone out and liveCompile has settled; the slot takes the
\* next request
Reply(r) ==
    /\ pc[r] = "done"
    /\ ~late[r]
    /\ pc' = [pc EXCEPT ![r] = "idle"]
    /\ reqPack' = [reqPack EXCEPT ![r] = ""]
    /\ inputs' = [inputs EXCEPT ![r] = <<>>]
    /\ result' = [result EXCEPT ![r] = NoResult]
    /\ response' = [response EXCEPT ![r] = NoResponse]
    /\ hist' = [hist EXCEPT ![r] = NoHist]
    /\ UNCHANGED <<store, present, late, pack, calls>>

\* declared files are removed from, or put back on, the disk; the disk is read
\* only when a compile starts, so a change counts from the next start on
DiskChange(files) ==
    /\ files # present
    /\ \E r \in Reqs : pc[r] = "idle"
    /\ present' = files
    /\ UNCHANGED <<store, pc, reqPack, inputs, result, response, late,
                   hist, pack, calls>>

Next ==
    \/ \E r \in Reqs, param \in PackParams : Compile(r, param)
    \/ \E r \in Reqs, g \in GatewayOutcomes, now \in Stamps : GatewayReturn(r, g, now)
    \/ \E r \in Reqs : Timeout(r)
    \/ \E r \in Reqs, g \in GatewayOutcomes : LateReturn(r, g)
    \/ \E r \in Reqs, outcome \in WriteOutcomes : Persist(r, outcome)
    \/ \E r \in Reqs, packId \in PackParams \ {""} : Export(r, packId)
    \/ \E r \in Reqs, packId \in PackParams \ {""} : ExportMd(r, packId)
    \/ \E r \in Reqs : Reply(r)
    \/ \E files \in DiskStates : DiskChange(files)

Spec == Init /\ [][Next]_vars

\* Scheduling: a timer that is armed fires (setTimeout, 90 s), and synchronous
\* code that has started runs on (the save and the return of compileSignals,
\* the handler's reply).  Nothing is assumed of the gateway: it may never answer.
Fairness ==
    \A r \in Reqs :
        /\ WF_vars(Timeout(r))
        /\ WF_vars(\E outcome \in WriteOutcomes : Persist(r, outcome))

\* The same steps with the clock read fixed: what new Date() reads has no
\* bearing on whether a request ends.
NextLive ==
    \/ \E r \in Reqs, param \in PackParams : Compile(r, param)
    \/ \E r \in Reqs, g \in GatewayOutcomes :
          GatewayReturn(r, g, "2026-01-26T10:00:00.000Z")
    \/ \E r \in Reqs : Timeout(r)
    \/ \E r \in Reqs, g \in GatewayOutcomes : LateReturn(r, g)
    \/ \E r \in Reqs, outcome \in WriteOutcomes : Persist(r, outcome)
    \/ \E r \in Reqs, packId \in PackParams \ {""} : Export(r, packId)
    \/ \E r \in Reqs, packId \in PackParams \ {""} : ExportMd(r, packId)
    \/ \E r \in Reqs : Reply(r)
    \/ \E files \in DiskStates : DiskChange(files)

SpecLive == Init /\ [][NextLive]_vars /\ Fairness

(***************************************************************************)
(* Overlapping compile requests of one pack: up to MaxWriters requests in  *)
(* flight at once, each awaiting the gateway while the others run          *)
(* (main.ts 117-139, 255-280), all artifacts on disk.                      *)
(***************************************************************************)
Writers == 1..MaxWriters

OverlapPack == "agrinova_w04"

OverlapOutcomes == {JsonText(GoodResponse), JsonText(EmptyObject), Rejected}

InitOverlap ==
    /\ store = [p \in PackIds |-> NoFile]
    /\ present = Filenames
    /\ pc = [r \in Writers |-> "idle"]
    /\ reqPack = [r \in Writers |-> ""]
    /\ inputs = [r \in Writers |-> <<>>]
    /\ result = [r \in Writers |-> NoResult]
    /\ response = [r \in Writers |-> NoResponse]
    /\ late = [r \in Writers |-> FALSE]
    /\ hist = [r \in Writers |-> NoHist]
    /\ pack = EmptyObject
    /\ calls = <<>>

NextOverlap ==
    \/ \E r \in Writers : Compile(r, OverlapPack)
    \/ \E r \in Writers, g \in OverlapOutcomes, now \in Stamps : GatewayReturn(r, g, now)
    \/ \E r \in Writers, outcome \in WriteOutcomes : Persist(r, outcome)
    \/ \E r \in Writers : Reply(r)

SpecOverlap == InitOverlap /\ [][NextOverlap]_vars

(***************************************************************************)
(* Verifier harness: candidate responses drawn from bounded sets, and      *)
(* verifyEvidence applied to them (up to MaxCalls times on one object).    *)
(***************************************************************************)
Quiet ==
    /\ store = [p \in PackIds |-> NoFile]
    /\ present = {}
    /\ pc = [r \in Reqs |-> "idle"]
    /\ reqPack = [r \in Reqs |-> ""]
    /\ inputs = [r \in Reqs |-> <<>>]
    /\ result = [r \in Reqs |-> NoResult]
    /\ response = [r \in Reqs |-> NoResponse]
    /\ late = [r \in Reqs |-> FALSE]
    /\ hist = [r \in Reqs |-> NoHist]

orchVars == <<store, present, pc, reqPack, inputs, result, response, late, hist>>

InitVerify ==
    /\ Quiet
    /\ pack \in Candidates
    /\ calls = <<>>

\* const verified = verifyEvidence(parsed)
CallVerify ==
    /\ Len(calls) < MaxCalls
    /\ LET out == verifyEvidence(pack)
       IN  /\ calls' = Append(calls, [input |-> pack, output |-> out])
           /\ pack' = AfterVerify(pack, out)
    /\ UNCHANGED orchVars

NextVerify == CallVerify

SpecVerify == InitVerify /\ [][NextVerify]_vars

(***************************************************************************)
(* Indexer harness: responses whose signals all carry evidence, verified   *)
(* and indexed as liveCompile does (main.ts 370-372).                      *)
(***************************************************************************)
\* three spans: two with the same quote (on different pages), one whose source
\* has an upper-case extension, one whose source has ".pdf" in the middle too
ExtractSpans ==
    {EvidenceSpan(<<"weekly-pack", ".pdf">>, <<"q1">>),
     [EvidenceSpan(<<"bank", ".PDF">>, <<"q1">>) EXCEPT !.page = 2],
     [EvidenceSpan(<<"q4", ".pdf", "-notes", ".pdf">>, <<"q2">>) EXCEPT !.page = 3]}

ExtractSignals ==
    {Signal(<<"S1">>, "high", Arr(ev)) : ev \in SeqsUpTo(ExtractSpans, MaxSpans) \ {<<>>}}

\* a claim without quote between two with one, and a claim whose source is ''
TwoConflicts ==
    Arr(<<Conflict(<<"C1">>,
                   Arr(<<ConflictClaim(<<"email-thread", ".pdf">>, <<"q2">>),
                         ConflictClaim(<<"bank", ".PDF">>, <<>>),
                         [ConflictClaim(<<>>, <<"q3">>) EXCEPT !.page = 2]>>)),
          Conflict(<<"C2">>, Arr(<<[ConflictClaim(<<"memo", ".pdf">>, <<"q1">>)
                                       EXCEPT !.page = 4]>>))>>)

ExtractCandidates ==
    {GeminiSignalResponse(Arr(sigs), Arr(<<>>), c, SomeNextChecks) :
        sigs \in SeqsUpTo(ExtractSignals, MaxSignals), c \in {Arr(<<>>), TwoConflicts}}

InitExtract ==
    /\ Quiet
    /\ pack \in ExtractCandidates
    /\ calls = <<>>

\* const verified = verifyEvidence(parsed);
\* const evidence = extractEvidenceSpans(verified);
CallExtract ==
    /\ Len(calls) < MaxCalls
    /\ LET verified == verifyEvidence(pack)
       IN  /\ calls' = Append(calls, [input |-> pack, output |-> verified,
                                       evidence |-> extractEvidenceSpans(verified).evidence])
           /\ pack' = AfterVerify(pack, verified)
    /\ UNCHANGED orchVars

NextExtract == CallExtract

SpecExtract == InitExtract /\ [][NextExtract]_vars

(***************************************************************************)
(* Report harness: responses whose signals differ in severity, compiled    *)
(* into a run record, stored, read back and rendered (main.ts 370-388,     *)
(* 274, 172-173).                                                          *)
(***************************************************************************)
Severities == {"critical", "high", "medium", "low"}

ReportSignals ==
    {Signal(<<"S1">>, sev, ev) :
        sev \in Severities,
        ev \in {Arr(<<EvidenceSpan(<<"weekly-pack", ".pdf">>, <<"q1">>)>>), Arr(<<>>)}}

ReportCandidates ==
    {GeminiSignalResponse(Arr(sigs), Arr(<<>>), SomeConflicts, SomeNextChecks) :
        sigs \in SeqsUpTo(ReportSignals, MaxFindings)}

InitReport ==
    /\ Quiet
    /\ pack \in ReportCandidates
    /\ calls = <<>>

\* liveCompile assembles the run, compileSignals writes it, the export reads it
\* back and renders it
CallReport ==
    /\ Len(calls) < MaxCalls
    /\ LET packConfig == PACKS["agrinova_w04"]
           verified == verifyEvidence(pack)
           run == RunEvidencePack(packConfig, LoadInputs(packConfig.files, 1, Filenames),
                                  verified, extractEvidenceSpans(verified).evidence,
                                  "2026-01-26T10:00:00.000Z")
           file == writeFileSync(NoFile, JSONstringify(run), "written")
       IN  /\ calls' = Append(calls, [input |-> pack, output |-> verified,
                                       run |-> JSONparse(file).value,
                                       md |-> generateMarkdown(JSONparse(file).value).md])
           /\ pack' = AfterVerify(pack, verified)
    /\ UNCHANGED orchVars

NextReport == CallReport

SpecReport == InitReport /\ [][NextReport]_vars

(***************************************************************************)
(* Claims about verifyEvidence, over the calls the harness has made        *)
(***************************************************************************)
\* what a call was given and what it returned
CallCandidates(c) == OrEmpty(c.input.signals).v
CallPriorDrops(c) == OrEmpty(c.input.drops).v
CallOutput(c) == c.output

\* the candidates of a call that carry zero evidence spans
ZeroEvidence(c) ==
    {i \in 1..Len(CallCandidates(c)) :
        \/ CallCandidates(c)[i].evidence.k = "undef"
        \/ Len(CallCandidates(c)[i].evidence.v) = 0}

Count(seq, P(_)) == Cardinality({j \in 1..Len(seq) : P(seq[j])})

\* C1: every Finding in the accepted set returned by verifyEvidence has at
\* least one evidence span, and every one of its spans has a non-empty quote.
C1_AcceptedAreQuoted ==
    \A n \in 1..Len(calls) :
        \A j \in 1..Len(CallOutput(calls[n]).signals.v) :
            LET sig == CallOutput(calls[n]).signals.v[j]
            IN  /\ sig.evidence.k = "arr"
                /\ Len(sig.evidence.v) >= 1
                /\ \A e \in 1..Len(sig.evidence.v) : sig.evidence.v[e].quote # <<>>

\* C2: verifyEvidence loses no candidate: every zero-evidence candidate is
\* demoted to a Drop with reason MISSING_EVIDENCE (none is accepted), accepted
\* plus demoted equals the number of candidates, and the returned drops number
\* the pre-existing drops plus the demoted Findings.
C2_NoCandidateLost ==
    \A n \in 1..Len(calls) :
        LET c == calls[n]
            out == CallOutput(c)
            npre == Len(CallPriorDrops(c))
        IN  /\ ~out.threw
            /\ Len(out.signals.v) + Cardinality(ZeroEvidence(c)) = Len(CallCandidates(c))
            /\ Len(out.drops.v) = npre + Cardinality(ZeroEvidence(c))
            /\ \A i \in ZeroEvidence(c) :
                 /\ \E j \in (npre + 1)..Len(out.drops.v) :
                      /\ out.drops.v[j].reason = "MISSING_EVIDENCE"
                      /\ out.drops.v[j].what = CallCandidates(c)[i].summary
                 /\ Count(out.signals.v, LAMBDA s : s = CallCandidates(c)[i]) = 0

\* a call that demoted one candidate and accepted another, next to a model drop
C2_Witness ==
    \E n \in 1..Len(calls) :
        /\ ZeroEvidence(calls[n]) # {}
        /\ Len(CallOutput(calls[n]).signals.v) >= 1
        /\ Len(CallPriorDrops(calls[n])) >= 1

\* C3 as stated: for every demoted Finding with id X the returned drops hold
\* exactly one Drop with id "D_" + X, whatever the candidates and prior drops.
C3_ExactlyOneDropPerId ==
    \A n \in 1..Len(calls) :
        \A i \in ZeroEvidence(calls[n]) :
            Count(CallOutput(calls[n]).drops.v,
                  LAMBDA d : d.id = <<"D_">> \o CallCandidates(calls[n])[i].id) = 1

\* C3 amended: for every demoted Finding with id X, the returned drops hold
\* as many Drops with id "D_" + X as there are demoted candidates with id X
\* plus pre-existing drops with that id (so at least one, and exactly one when
\* X is demoted once and no pre-existing drop uses the id).
C3_OneDropPerDemotion ==
    \A n \in 1..Len(calls) :
        \A i \in ZeroEvidence(calls[n]) :
            LET c == calls[n]
                dx == <<"D_">> \o CallCandidates(c)[i].id
            IN  Count(CallOutput(c).drops.v, LAMBDA d : d.id = dx)
                  = Cardinality({k \in ZeroEvidence(c) :
                                    CallCandidates(c)[k].id = CallCandidates(c)[i].id})
                    + Count(CallPriorDrops(c), LAMBDA d : d.id = dx)

\* two demoted candidates share the id S1 and a model drop already uses D_S1
C3_Witness ==
    \E n \in 1..Len(calls) :
        /\ Cardinality({k \in ZeroEvidence(calls[n]) :
                           CallCandidates(calls[n])[k].id = <<"S1">>}) = 2
        /\ Count(CallPriorDrops(calls[n]), LAMBDA d : d.id = <<"D_", "S1">>) = 1
        /\ Count(CallOutput(calls[n]).drops.v, LAMBDA d : d.id = <<"D_", "S1">>) = 3

\* C4 as stated: the pre-existing drops are returned unchanged, in order, and
\* after all the synthesized drops (the returned list ends with them).
C4_PriorDropsLast ==
    \A n \in 1..Len(calls) :
        LET c == calls[n]
            all == CallOutput(c).drops.v
        IN  /\ Len(all) >= Len(CallPriorDrops(c))
            /\ SubSeq(all, Len(all) - Len(CallPriorDrops(c)) + 1, Len(all))
                 = CallPriorDrops(c)

\* C4 amended: the pre-existing drops are returned unchanged, in order, and
\* before all the synthesized drops (the returned list starts with them, and
\* every drop after them is a synthesized MISSING_EVIDENCE drop).
C4_PriorDropsFirst ==
    \A n \in 1..Len(calls) :
        LET c == calls[n]
            all == CallOutput(c).drops.v
            npre == Len(CallPriorDrops(c))
        IN  /\ Len(all) >= npre
            /\ SubSeq(all, 1, npre) = CallPriorDrops(c)
            /\ \A j \in (npre + 1)..Len(all) :
                 /\ all[j].reason = "MISSING_EVIDENCE"
                 /\ all[j].detail = "Signal extracted but no evidence quote provided"

\* a call with two model drops and a demoted candidate
C4_Witness ==
    \E n \in 1..Len(calls) :
        /\ Len(CallPriorDrops(calls[n])) = 2
        /\ ZeroEvidence(calls[n]) # {}
        /\ Len(CallOutput(calls[n]).drops.v) > 2

(***************************************************************************)
(* Claims about the compile orchestrator and the run store                 *)
(***************************************************************************)
\* request r has just ended, in this step
Ends(r) == pc[r] # "done" /\ pc'[r] = "done"

\* the live compile of a request failed (liveCompile threw, or the deadline passed)
LiveFailed(h) == h.kind = "compile" /\ h.liveErr # ""

\* the inference of a request failed: the gateway was called, and it rejected,
\* ran past the deadline, or sent what liveCompile could not use
InferenceFailed(h) == LiveFailed(h) /\ h.calls = 1

\* C5: when the live compile fails and the run store holds a latest record
\* for the pack, the request ends with status 200 and a body whose signals,
\* conflicts, drops and next_checks are those of the stored record, with
\* _cached = true.
C5_FallbackReturnsStoredRun ==
    [][\A r \in Reqs :
          (Ends(r) /\ InferenceFailed(hist'[r]) /\ store[reqPack'[r]].kind = "json")
          => /\ response'[r].status = 200
             /\ response'[r].body.signals = store[reqPack'[r]].rec.signals
             /\ response'[r].body.conflicts = store[reqPack'[r]].rec.conflicts
             /\ response'[r].body.drops = store[reqPack'[r]].rec.drops
             /\ response'[r].body.next_checks = store[reqPack'[r]].rec.next_checks
             /\ response'[r].body.cached = TRUE]_vars

\* a gateway failure answered from a stored run that has a signal and two drops
C5_Witness ==
    \E r \in Reqs :
        /\ pc[r] = "done"
        /\ InferenceFailed(hist[r])
        /\ hist[r].text.kind \in {"reject", "garbage"}
        /\ hist[r].seen = "json"
        /\ response[r].status = 200
        /\ response[r].body.cached = TRUE
        /\ Len(response[r].body.signals.v) = 1
        /\ Len(response[r].body.drops.v) = 2

\* C6: when the live compile fails and the run store holds no latest record
\* for the pack, the request fails and the detail sent to the caller is the
\* message of the error the live compile failed with (the gateway's own
\* message when the gateway rejected).
C6_OriginalErrorSurfaced ==
    \A r \in Reqs :
        (pc[r] = "done" /\ LiveFailed(hist[r]) /\ hist[r].seen = "none")
        => /\ response[r].status = 500
           /\ response[r].body.detail = hist[r].liveErr
           /\ hist[r].text.kind = "reject" => response[r].body.detail = hist[r].text.err
           /\ hist[r].text.kind = "garbage"
                => response[r].body.detail = "Invalid JSON from Gemini"
           /\ (hist[r].calls = 1 /\ hist[r].text.kind = "none")
                => response[r].body.detail = "Gemini timeout"

\* a gateway rejection with nothing stored
C6_Witness ==
    \E r \in Reqs :
        /\ pc[r] = "done"
        /\ hist[r].text.kind = "reject"
        /\ hist[r].seen = "none"
        /\ response[r].status = 500
        /\ response[r].body.detail = "fetch failed"

\* C7 as stated: when none of the pack's files resolves, the request fails with
\* the NoArtifacts error, and a cached run is never returned for it (a store
\* file that a failed write truncated is left aside here).
C7_NoArtifactsIsFatal ==
    \A r \in Reqs :
        (pc[r] = "done" /\ hist[r].liveErr = "No artifacts found for this pack."
           /\ hist[r].seen # "partial")
        => /\ response[r].status = 500
           /\ response[r].body.detail = "No artifacts found for this pack."

\* the gateway's answer has the shape {signals, conflicts, drops, next_checks}
WellFormed(text) ==
    /\ text.kind = "json"
    /\ text.value.kind = "obj"
    /\ text.value.signals.k = "arr"
    /\ text.value.conflicts.k = "arr"
    /\ text.value.drops.k = "arr"
    /\ text.value.next_checks.k = "arr"

\* C8 as stated: a gateway response that is not of the shape {signals,
\* conflicts, drops, next_checks} is an inference failure: the request goes to
\* fallback lookup, and no run built from it is returned as fresh or written.
C8_MalformedResponseIsFailure ==
    \A r \in Reqs :
        (hist[r].text.kind \in {"garbage", "json"} /\ ~WellFormed(hist[r].text))
        => /\ pc[r] # "persisting"
           /\ hist[r].wrote = ""
           /\ pc[r] = "done" => hist[r].seen # ""

\* C9: when the live compile succeeds but the write fails, the request still
\* ends with status 200 and the freshly assembled result, without _cached;
\* the write error is not surfaced and no fallback lookup happens.
C9_FailedSaveIsSwallowed ==
    \A r \in Reqs :
        (pc[r] = "done" /\ hist[r].wrote \in {"failed", "partial"})
        => /\ response[r].status = 200
           /\ response[r].body = result[r]
           /\ "cached" \notin DOMAIN response[r].body
           /\ response[r].body.runPack.signals = response[r].body.signals
           /\ hist[r].seen = ""
           /\ hist[r].liveErr = ""

\* a failed write after a compile that demoted a signal
C9_Witness ==
    \E r \in Reqs :
        /\ pc[r] = "done"
        /\ hist[r].wrote = "partial"
        /\ response[r].status = 200
        /\ Len(response[r].body.signals.v) = 1
        /\ store[reqPack[r]].kind = "partial"

\* C10: a successful write puts exactly the request's run record in the latest
\* slot of its pack; an export of the pack returns the stored record verbatim
\* and changes nothing; and the slot of a pack changes only in the persistence
\* step of a compile of that pack (one whose live compile succeeded).
C10_LatestSlotHoldsLastRun ==
    [][\A p \in PackIds :
          /\ \A r \in Reqs :
                (Ends(r) /\ hist'[r].wrote = "written" /\ reqPack[r] = p)
                => /\ JSONparse(store'[p]) = Returned(result[r].runPack)
                   /\ result[r].runPack.run_meta.pack_id = p
          /\ \A r \in Reqs :
                (Ends(r) /\ hist'[r].kind = "export" /\ reqPack'[r] = p
                   /\ store[p].kind = "json")
                => /\ response'[r].status = 200
                   /\ response'[r].body = store[p].rec
                   /\ store' = store
          /\ store'[p] # store[p]
                => \E r \in Reqs :
                      pc[r] = "persisting" /\ reqPack[r] = p /\ Ends(r)]_vars

\* an export that returns a stored run with its two evidence entries
C10_Witness ==
    \E r \in Reqs :
        /\ pc[r] = "done"
        /\ hist[r].kind = "export"
        /\ response[r].status = 200
        /\ response[r].body = store[reqPack[r]].rec
        /\ response[r].body.run_meta.created_at = "2026-01-26T10:05:00.000Z"
        /\ Len(response[r].body.evidence) = 2

\* C11 as stated: a compile request for a pack id that is not registered in the
\* catalog ends with status 400 and the list of all known pack ids, without
\* loading documents, calling the gateway or writing to the run store.
C11_UnknownPackIs400 ==
    \A r \in Reqs :
        (pc[r] = "done" /\ hist[r].kind = "compile" /\ reqPack[r] \notin PackIds)
        => /\ response[r].status = 400
           /\ response[r].body.available = PackKeys
           /\ hist[r].calls = 0
           /\ hist[r].liveErr = ""
           /\ hist[r].wrote = ""

\* C12: every compile request that has started inference ends, with a result
\* or with an error, even if the gateway never answers; and when the deadline
\* passes the request is answered as after any inference failure: the stored
\* run of the pack with _cached = true if there is one, else status 500 with
\* the timeout's message, and nothing is written.
C12_CompileTerminates ==
    /\ \A r \in Reqs : (pc[r] \in {"inferring", "persisting"}) ~> (pc[r] = "done")
    /\ [][\A r \in Reqs :
            (Ends(r) /\ hist'[r].liveErr = "Gemini timeout")
            => /\ store' = store
               /\ hist'[r].seen = store[reqPack[r]].kind
               /\ store[reqPack[r]].kind = "json"
                    => /\ response'[r].status = 200
                       /\ response'[r].body.cached = TRUE
                       /\ response'[r].body.signals = store[reqPack[r]].rec.signals
                       /\ response'[r].body.drops = store[reqPack[r]].rec.drops
               /\ store[reqPack[r]].kind = "none"
                    => /\ response'[r].status = 500
                       /\ response'[r].body.detail = "Gemini timeout"]_vars

\* the deadline passed while the gateway had not answered, and the request
\* was answered from the stored run
C12_Witness ==
    \E r \in Reqs :
        /\ pc[r] = "done"
        /\ late[r]
        /\ hist[r].liveErr = "Gemini timeout"
        /\ hist[r].text.kind = "none"
        /\ response[r].status = 200
        /\ response[r].body.cached = TRUE

\* C13: when compile requests of the same pack overlap, a persistence step
\* that succeeds leaves the whole run record of its own request in the pack's
\* latest slot, whatever record a request that wrote before it left there
\* (never that earlier record, never a mixture), and the slot changes in no
\* other step: it ends up holding the record of the persistence step that ran
\* last.
C13_LastWriterWins ==
    [][\A r \in Writers :
          /\ (pc[r] = "persisting" /\ Ends(r) /\ hist'[r].wrote = "written"
                 /\ \E r2 \in Writers \ {r} : reqPack[r2] = reqPack[r] /\ pc[r2] # "idle")
              => /\ store'[reqPack[r]] = JSONstringify(result[r].runPack)
                 /\ \A r2 \in Writers \ {r} :
                      (pc[r2] = "done" /\ hist[r2].wrote = "written"
                         /\ result[r2].runPack # result[r].runPack)
                      => store'[reqPack[r]].rec # result[r2].runPack
          /\ ~(pc[r] = "persisting" /\ Ends(r))
              => (\/ store' = store
                  \/ \E r2 \in Writers \ {r} : pc[r2] = "persisting" /\ Ends(r2))]_vars

\* two overlapping requests of one pack both wrote, with different records, and
\* the slot holds the record of one of them
C13_Witness ==
    \E r1, r2 \in Writers :
        /\ r1 # r2
        /\ pc[r1] = "done" /\ pc[r2] = "done"
        /\ reqPack[r1] = reqPack[r2]
        /\ hist[r1].wrote = "written" /\ hist[r2].wrote = "written"
        /\ result[r1].runPack # result[r2].runPack
        /\ result[r1].runPack.signals = result[r2].runPack.signals
        /\ store[reqPack[r1]] = JSONstringify(result[r1].runPack)

\* C14 as stated: every reader of the run store that finds a latest record
\* for a pack (the fallback lookup of a compile, an export) reads a fully
\* written run record, also after a write that failed part-way.
C14_ReadersSeeWholeRecords ==
    \A r \in Reqs :
        pc[r] = "done"
        => /\ hist[r].seen # "partial"
           /\ (hist[r].kind = "export" /\ existsSync(RunFile(reqPack[r])))
                => /\ response[r].status = 200
                   /\ response[r].body = RunFile(reqPack[r]).rec

\* the declared files of a pack that resolve on the disk
Resolved(files, found) == {i \in 1..Len(files) : files[i].filename \in found}

\* inp lists exactly the declared files with the indices in `idx`, in declared order
ListsInOrder(inp, files, idx) ==
    /\ Len(inp) = Cardinality(idx)
    /\ \E f \in [1..Len(inp) -> idx] :
          /\ \A j, k \in 1..Len(inp) : j < k => f[j] < f[k]
          /\ \A k \in 1..Len(inp) :
                /\ inp[k].doc_id = files[f[k]].doc_id
                /\ inp[k].filename = files[f[k]].filename

\* C15: a compile of a registered pack goes on to inference if and only if at
\* least one declared file resolves (a file that is not found is skipped and
\* does not fail the request), the documents loaded are exactly the resolved
\* files in declared order, and the run record's inputs list is that list.
C15_MissingFilesSkipped ==
    [][\A r \in Reqs :
          /\ (pc[r] = "idle" /\ pc'[r] # "idle" /\ hist'[r].kind = "compile"
                 /\ reqPack'[r] \in PackIds)
              => LET files == PACKS[reqPack'[r]].files
                 IN  /\ (pc'[r] = "inferring") <=> (Resolved(files, present) # {})
                     /\ pc'[r] = "inferring" =>
                            /\ ListsInOrder(inputs'[r], files, Resolved(files, present))
                            /\ hist'[r].liveErr = ""
                     /\ pc'[r] # "inferring" => hist'[r].calls = 0
          /\ (pc[r] = "inferring" /\ pc'[r] = "persisting")
              => result'[r].runPack.inputs = inputs[r]]_vars

\* a run assembled for agrinova_w04 whose first declared file was not found:
\* its inputs list holds the second file alone
C15_Witness ==
    \E r \in Reqs :
        /\ pc[r] = "persisting"
        /\ reqPack[r] = "agrinova_w04"
        /\ Len(result[r].runPack.inputs) = 1
        /\ result[r].runPack.inputs[1].doc_id = "email-thread"
        /\ result[r].runPack.inputs[1].filename = "Demo_Artifact_2.pdf"

(***************************************************************************)
(* Claims about extractEvidenceSpans, over the calls of the indexer harness *)
(***************************************************************************)
\* all evidence spans of the signals, signal by signal
RECURSIVE AllSpans(_)
AllSpans(signals) ==
    IF signals = <<>> THEN <<>>
    ELSE Head(signals).evidence.v \o AllSpans(Tail(signals))

\* all claims of the conflicts that carry a quote, conflict by conflict
RECURSIVE QuotedClaims(_)
QuotedClaims(conflicts) ==
    IF conflicts = <<>> THEN <<>>
    ELSE SelectSeq(Head(conflicts).claims.v, LAMBDA c : c.quote # <<>>)
         \o QuotedClaims(Tail(conflicts))

\* C16: the entries are one per evidence span of the accepted Findings, in
\* Finding order and span order, then one per Conflict claim with a non-empty
\* quote, in Conflict order and claim order; their ids are ev_1 .. ev_n in
\* emission order, without gap or repeat; indexing the same input again gives
\* the same entries.
C16_EntriesInOrder ==
    \A n \in 1..Len(calls) :
        LET spans == AllSpans(calls[n].output.signals.v)
            claims == QuotedClaims(calls[n].output.conflicts.v)
            ev == calls[n].evidence
        IN  /\ Len(ev) = Len(spans) + Len(claims)
            /\ \A k \in 1..Len(spans) :
                  ev[k].quote = spans[k].quote /\ ev[k].page = spans[k].page
            /\ \A k \in 1..Len(claims) :
                  /\ ev[Len(spans) + k].quote = claims[k].quote
                  /\ ev[Len(spans) + k].page = claims[k].page
            /\ \A k \in 1..Len(ev) : ev[k].id = [pre |-> "ev_", n |-> k]
            /\ \A m \in 1..Len(calls) :
                  calls[m].output.signals = calls[n].output.signals
                  => calls[m].evidence = ev

\* two Findings with different spans, and conflicts with a claim that has no
\* quote between claims that have one
C16_Witness ==
    \E n \in 1..Len(calls) :
        /\ Len(calls[n].output.signals.v) = 2
        /\ calls[n].output.signals.v[1].evidence # calls[n].output.signals.v[2].evidence
        /\ Len(calls[n].output.signals.v[1].evidence.v) = 2
        /\ Len(calls[n].output.conflicts.v) = 2
        /\ Len(calls[n].evidence) = Len(AllSpans(calls[n].output.signals.v)) + 3

\* a source with its trailing extension removed, whatever its case
StripExtension(source) ==
    IF source # <<>> /\ source[Len(source)] \in {".pdf", ".PDF"}
    THEN SubSeq(source, 1, Len(source) - 1)
    ELSE source

\* C17 as stated: the doc_id of the entry of an evidence span is the span's
\* source with a trailing extension removed, matched case-insensitively, and
\* with nothing else removed.
C17_DocIdStripsExtension ==
    \A n \in 1..Len(calls) :
        LET spans == AllSpans(calls[n].output.signals.v)
        IN  \A k \in 1..Len(spans) :
              k <= Len(calls[n].evidence)
              => calls[n].evidence[k].doc_id = StripExtension(spans[k].source)

\* the positions <<i, j>> of the evidence spans of the signals
SpanPositions(signals) ==
    UNION {{<<i, j>> : j \in 1..Len(signals[i].evidence.v)} : i \in 1..Len(signals)}

\* the positions <<i, j>> of the conflict claims that carry a quote
ClaimPositions(conflicts) ==
    UNION {{<<i, j>> : j \in {c \in 1..Len(conflicts[i].claims.v) :
                                  conflicts[i].claims.v[c].quote # <<>>}} :
           i \in 1..Len(conflicts)}

\* C18: nothing is deduplicated: there are as many entries as evidence spans
\* of the accepted Findings plus Conflict claims with a non-empty quote; for
\* each quote there are as many entries as spans and claims citing it; and no
\* two entries share an id.
C18_NoDeduplication ==
    \A n \in 1..Len(calls) :
        LET signals == calls[n].output.signals.v
            conflicts == calls[n].output.conflicts.v
            ev == calls[n].evidence
        IN  /\ Len(ev) = Cardinality(SpanPositions(signals))
                          + Cardinality(ClaimPositions(conflicts))
            /\ \A q \in {<<"q1">>, <<"q2">>, <<"q3">>} :
                  Cardinality({k \in 1..Len(ev) : ev[k].quote = q})
                  = Cardinality({pos \in SpanPositions(signals) :
                        signals[pos[1]].evidence.v[pos[2]].quote = q})
                    + Cardinality({pos \in ClaimPositions(conflicts) :
                        conflicts[pos[1]].claims.v[pos[2]].quote = q})
            /\ \A j, k \in 1..Len(ev) : j # k => ev[j].id # ev[k].id

\* two Findings cite the same quote from the same place, and a Conflict claim
\* cites it too: three entries with that quote, under three ids
C18_Witness ==
    \E n \in 1..Len(calls) :
        LET signals == calls[n].output.signals.v
            ev == calls[n].evidence
        IN  /\ Len(signals) = 2
            /\ signals[1].evidence = signals[2].evidence
            /\ Len(signals[1].evidence.v) = 1
            /\ signals[1].evidence.v[1].quote = <<"q1">>
            /\ ev[1].quote = <<"q1">> /\ ev[2].quote = <<"q1">>
            /\ ev[1].id # ev[2].id
            /\ Cardinality({k \in 1..Len(ev) : ev[k].quote = <<"q1">>}) = 3

(***************************************************************************)
(* Frame claims about verifyEvidence, over the calls of the verifier harness *)
(***************************************************************************)
\* C19 as stated: verifyEvidence leaves its input unchanged (the candidate
\* drops of the raw response in particular), so a second call on the same
\* object is given the same input and returns an equal result.
C19_VerifyIsPure ==
    \A n \in 1..Len(calls) :
        /\ n < Len(calls)
             => /\ calls[n + 1].input = calls[n].input
                /\ calls[n + 1].output = calls[n].output
        /\ n = Len(calls) => pack = calls[n].input

\* C20: the accepted set is the candidates that carry evidence, each one as it
\* was given, in the candidates' order; conflicts and next_checks are returned
\* as they were given.
C20_AcceptedUnchanged ==
    \A n \in 1..Len(calls) :
        LET c == calls[n]
        IN  /\ CallOutput(c).signals.v
                 = SelectSeq(CallCandidates(c),
                             LAMBDA s : s.evidence.k = "arr" /\ Len(s.evidence.v) >= 1)
            /\ CallOutput(c).conflicts = c.input.conflicts
            /\ CallOutput(c).next_checks = c.input.next_checks

\* a call that accepted two different candidates, next to a conflict
C20_Witness ==
    \E n \in 1..Len(calls) :
        /\ Len(CallOutput(calls[n]).signals.v) = 2
        /\ CallOutput(calls[n]).signals.v[1] # CallOutput(calls[n]).signals.v[2]
        /\ CallOutput(calls[n]).signals.v = CallCandidates(calls[n])
        /\ Len(CallOutput(calls[n]).conflicts.v) = 1

(***************************************************************************)
(* Claims about what a request calls, reads and writes                     *)
(***************************************************************************)
\* C21: a compile request calls the gateway at most once (no second call after
\* a failure or a timeout), and it reads the run store only after its live
\* compile has failed: never while it waits for the gateway, never when the
\* live compile succeeded.
C21_OneCallThenFallback ==
    \A r \in Reqs :
        /\ hist[r].calls <= 1
        /\ hist[r].seen # ""
             => /\ hist[r].kind = "compile"
                /\ hist[r].liveErr # ""
                /\ pc[r] = "done"
        /\ pc[r] \in {"inferring", "persisting"} => hist[r].seen = ""
        /\ hist[r].wrote # "" => hist[r].seen = "" /\ hist[r].calls = 1

\* a request whose one gateway call returned text that is no JSON, answered
\* from the run store
C21_Witness ==
    \E r \in Reqs :
        /\ pc[r] = "done"
        /\ hist[r].calls = 1
        /\ hist[r].text.kind = "garbage"
        /\ hist[r].liveErr = "Invalid JSON from Gemini"
        /\ hist[r].seen = "json"

\* C22: an export (JSON or Markdown) calls no gateway and leaves the run store
\* as it is, and what it sends is read off the stored record of the pack
\* alone: the record itself for JSON; for Markdown a report whose header,
\* counts, inputs, signals and drops are those of the record.
C22_ExportReadsOnly ==
    [][\A r \in Reqs :
          (Ends(r) /\ hist'[r].kind \in {"export", "export_md"})
          => /\ store' = store
             /\ pc[r] = "idle"
             /\ hist'[r].calls = 0
             /\ RunFile(reqPack'[r]).kind = "none" => response'[r].status \in {400, 404}
             /\ (RunFile(reqPack'[r]).kind = "json" /\ hist'[r].kind = "export")
                  => /\ response'[r].status = 200
                     /\ response'[r].body = store[reqPack'[r]].rec
             /\ (RunFile(reqPack'[r]).kind = "json" /\ hist'[r].kind = "export_md")
                  => LET rec == store[reqPack'[r]].rec
                         md == response'[r].body
                     IN  /\ response'[r].status = 200
                         /\ md.title = rec.run_meta.pack_id
                         /\ md.generated = rec.run_meta.created_at
                         /\ md.model = rec.run_meta.model
                         /\ md.summary.total = Len(rec.signals.v)
                         /\ md.summary.conflicts = Len(rec.conflicts.v)
                         /\ md.summary.drops = Len(rec.drops.v)
                         /\ Len(md.inputs) = Len(rec.inputs)
                         /\ \A i \in 1..Len(rec.inputs) :
                               md.inputs[i].filename = rec.inputs[i].filename
                         /\ Len(md.signals) = Len(rec.signals.v)
                         /\ \A i \in 1..Len(rec.signals.v) :
                               /\ md.signals[i].id = rec.signals.v[i].id
                               /\ md.signals[i].summary = rec.signals.v[i].summary
                         /\ Len(md.drops) = Len(rec.drops.v)
                         /\ \A i \in 1..Len(rec.drops.v) :
                               md.drops[i].id = rec.drops.v[i].id]_vars

\* a Markdown export of a stored run of two inputs, one signal and two drops
C22_Witness ==
    \E r \in Reqs :
        /\ pc[r] = "done"
        /\ hist[r].kind = "export_md"
        /\ response[r].status = 200
        /\ response[r].body.title = reqPack[r]
        /\ Len(response[r].body.inputs) = 2
        /\ response[r].body.summary.total = 1
        /\ response[r].body.summary.drops = 2

(***************************************************************************)
(* Claims about generateMarkdown, over the calls of the report harness     *)
(***************************************************************************)
\* the number of signals of a run record with the given severity
WithSeverity(run, sev) ==
    Cardinality({i \in 1..Len(run.signals.v) : run.signals.v[i].severity = sev})

\* C23: the summary table of the report of a run record gives as Critical the
\* number of its signals with severity critical, as High the number with
\* severity high, and as Total the number of its signals.
C23_SummaryCounts ==
    \A n \in 1..Len(calls) :
        /\ calls[n].md.summary.critical = WithSeverity(calls[n].run, "critical")
        /\ calls[n].md.summary.high = WithSeverity(calls[n].run, "high")
        /\ calls[n].md.summary.total = Len(calls[n].run.signals.v)

\* a run with one critical and two high signals: Critical 1, High 2, Total 3
C23_Witness ==
    \E n \in 1..Len(calls) :
        /\ WithSeverity(calls[n].run, "critical") = 1
        /\ WithSeverity(calls[n].run, "high") = 2
        /\ Len(calls[n].run.signals.v) = 3
        /\ calls[n].md.summary = [critical |-> 1, high |-> 2, total |-> 3,
                                   conflicts |-> 1, drops |-> 0, next_checks |-> 1]

(***************************************************************************)
(* Claims about the run record's metadata                                  *)
(***************************************************************************)
\* the requests that hold what their liveCompile returned
Compiled == {r \in Reqs : result[r] # NoResult}

\* the packs whose run file holds a whole record
Stored == {p \in PackIds : existsSync(store[p]) /\ ~JSONparse(store[p]).threw}

StoredRun(p) == JSONparse(store[p]).value

\* C24: in every run record assembled by liveCompile, run_id is the run's
\* timestamp followed by "_" and the pack id, created_at is that same
\* timestamp, pack_id is the id of the compiled pack, and the processed_at of
\* the response is created_at.
C24_RunMeta ==
    /\ \A r \in Compiled :
          LET meta == result[r].runPack.run_meta
          IN  /\ meta.created_at \in Stamps
              /\ meta.run_id = <<meta.created_at, "_", PACKS[reqPack[r]].id>>
              /\ meta.pack_id = PACKS[reqPack[r]].id
              /\ result[r].processed_at = meta.created_at
              /\ (pc[r] = "done" /\ hist[r].wrote # "") =>
                     /\ response[r].status = 200
                     /\ response[r].body.processed_at = meta.created_at
                     /\ response[r].body.runPack.run_meta = meta
    /\ \A p \in Stored :
          /\ StoredRun(p).run_meta.run_id = <<StoredRun(p).run_meta.created_at, "_", p>>
          /\ StoredRun(p).run_meta.pack_id = p

\* a compile of the second pack has answered with the record it stored
C24_Witness ==
    \E r \in Reqs :
        /\ pc[r] = "done" /\ hist[r].wrote = "written"
        /\ reqPack[r] = "nordlake_compliance_w07"
        /\ response[r].body.processed_at = "2026-01-26T10:05:00.000Z"
        /\ response[r].body.runPack.run_meta.run_id =
               <<"2026-01-26T10:05:00.000Z", "_", "nordlake_compliance_w07">>
        /\ StoredRun(reqPack[r]) = response[r].body.runPack

\* C25: config_hash is a function of the prompt text alone: all run records
\* of one build, which carries one prompt text, have the same config_hash,
\* whatever their pack, documents, gateway response and time.
C25_HashOfPromptOnly ==
    LET records == {result[r].runPack : r \in Compiled} \cup {StoredRun(p) : p \in Stored}
    IN  \A a, b \in records : a.run_meta.config_hash = b.run_meta.config_hash

\* two stored records that differ in pack, documents, signals and time
C25_Witness ==
    /\ Stored = PackIds
    /\ LET a == StoredRun("agrinova_w04")
           b == StoredRun("nordlake_compliance_w07")
       IN  /\ a.run_meta.created_at # b.run_meta.created_at
           /\ a.inputs # b.inputs
           /\ a.signals # b.signals
           /\ a.run_meta.config_hash = b.run_meta.config_hash

(***************************************************************************)
(* Claims about what a failed compile leaves behind                        *)
(***************************************************************************)
\* the gateway's answer to request r arrives after the deadline has passed
ArrivesLate(r) == late[r] /\ ~late'[r]

\* C26: a compile whose live compile fails or times out never modifies the
\* run store: the step in which it fails leaves every slot as it was, it never
\* reaches the write, and the step in which the gateway's answer arrives
\* after the deadline changes neither the store nor the response.
C26_FailedCompileLeavesStore ==
    [][\A r \in Reqs :
          /\ (Ends(r) /\ LiveFailed(hist'[r]))
                => /\ store' = store
                   /\ hist'[r].wrote = ""
                   /\ pc[r] # "persisting"
          /\ ArrivesLate(r)
                => /\ store' = store
                   /\ response' = response
                   /\ result' = result
                   /\ LiveFailed(hist[r]) /\ hist[r].liveErr = "Gemini timeout"
                   /\ hist[r].wrote = ""]_vars

\* a request that timed out over a stored record and whose late answer has
\* been dropped: the record is still the older one
C26_Witness ==
    \E r \in Reqs :
        /\ pc[r] = "done" /\ ~late[r]
        /\ hist[r].liveErr = "Gemini timeout"
        /\ inputs[r] = <<>>
        /\ hist[r].seen = "json"
        /\ response[r].status = 200
        /\ response[r].body.processed_at = StoredRun(reqPack[r]).run_meta.created_at

(***************************************************************************)
(* Claims about evidence in what is stored and sent                        *)
(***************************************************************************)
\* a signal without a single evidence span
ZeroSpans(sig) == sig.evidence.k # "arr" \/ Len(sig.evidence.v) = 0

AllQuoted(signals) ==
    signals.k = "arr" /\ \A i \in 1..Len(signals.v) : ~ZeroSpans(signals.v[i])

\* C27: no run record in the run store and no compile response, fresh or
\* cached, has a signal with zero evidence spans, and the record a request
\* writes holds the signals that verifyEvidence returned for the gateway's
\* answer to that request.
C27_NothingUnquotedKept ==
    /\ \A p \in Stored : AllQuoted(StoredRun(p).signals)
    /\ \A r \in Compiled :
          /\ AllQuoted(result[r].signals)
          /\ AllQuoted(result[r].runPack.signals)
          /\ result[r].runPack.signals = verifyEvidence(hist[r].text.value).signals
          /\ ~verifyEvidence(hist[r].text.value).threw
    /\ \A r \in Reqs :
          (pc[r] = "done" /\ hist[r].kind = "compile" /\ response[r].status = 200)
          => AllQuoted(response[r].body.signals)
    /\ \A r \in Reqs : hist[r].wrote # "" => r \in Compiled

\* a fresh compile whose answer had a signal without evidence: one signal is
\* sent and stored, the other is among the drops
C27_Witness ==
    \E r \in Reqs :
        /\ pc[r] = "done" /\ hist[r].wrote = "written"
        /\ \E i \in 1..Len(hist[r].text.value.signals.v) :
               ZeroSpans(hist[r].text.value.signals.v[i])
        /\ Len(response[r].body.signals.v) = 1
        /\ Len(StoredRun(reqPack[r]).signals.v) = 1
        /\ Len(StoredRun(reqPack[r]).drops.v) = 2

(***************************************************************************)
(* Claims about the _cached mark                                           *)
(***************************************************************************)
\* the body carries _cached = true
MarkedCached(body) == "cached" \in DOMAIN body /\ body.cached = TRUE

\* C28: a compile response carries _cached = true exactly when its content was
\* read from the run store after the live compile had failed; the response of
\* a successful live compile has no _cached field, whether its write
\* succeeded or not.
C28_CachedMark ==
    \A r \in Reqs :
        (pc[r] = "done" /\ hist[r].kind = "compile")
        => /\ MarkedCached(response[r].body)
                <=> (response[r].status = 200 /\ LiveFailed(hist[r])
                       /\ hist[r].seen = "json")
           /\ hist[r].wrote \in WriteOutcomes
                => /\ response[r].status = 200
                   /\ "cached" \notin DOMAIN response[r].body
                   /\ ~LiveFailed(hist[r])
           /\ "cached" \in DOMAIN response[r].body => response[r].body.cached = TRUE

\* an answer that liveCompile could not index, replied to from the store
C28_Witness ==
    \E r \in Reqs :
        /\ pc[r] = "done"
        /\ hist[r].text.kind = "json" /\ hist[r].text.value = EvidenceNumber
        /\ hist[r].liveErr = "TypeError"
        /\ hist[r].seen = "json"
        /\ MarkedCached(response[r].body)
        /\ response[r].body.signals = StoredRun(reqPack[r]).signals

(***************************************************************************)
(* Claims about the slots of other packs                                   *)
(***************************************************************************)
\* request r, a compile, takes a step
CompileStep(r) ==
    \/ pc'[r] # pc[r] /\ (hist[r].kind = "compile" \/ hist'[r].kind = "compile")
    \/ ArrivesLate(r)

\* the pack the stepping request is for
StepPack(r) == IF pc[r] = "idle" THEN reqPack'[r] ELSE reqPack[r]

====
